---- MODULE Spec2Model ----
(***************************************************************************)
(* Model of check_truenas_extended_play.py: one run of the monitoring      *)
(* probe, from Startup.handle_requested_alert_type to process exit.        *)
(*                                                                         *)
(* Python values.  A str is a sequence of pieces (TLA+ strings): a literal *)
(* of the source is cut after its leading word and otherwise kept whole,   *)
(* a pool name or the --zpoolname argument is spelled character by         *)
(* character (str.lower() works on characters).  Concatenation is \o, ''   *)
(* is <<>>.  A decoded JSON value is a record [t, v, d, items]: t its      *)
(* Python type, v the pieces of a str (or the repr of a number or bool),   *)
(* d the key -> value function of a dict, items the elements of a list.    *)
(***************************************************************************)
EXTENDS Integers, Sequences, FiniteSets, TLC

\* Longest JSON array the server answers with.
MaxItems == 2

(***************************************************************************)
(* JSON values as json.loads returns them                                  *)
(***************************************************************************)
J(t, v, d, items) == [t |-> t, v |-> v, d |-> d, items |-> items]
JStr(s) == J("str", s, <<>>, <<>>)
JInt(s) == J("int", s, <<>>, <<>>)
JTrue == J("bool", <<"True">>, <<>>, <<>>)
JFalse == J("bool", <<"False">>, <<>>, <<>>)
JNull == J("NoneType", <<>>, <<>>, <<>>)
JDict(f) == J("dict", <<>>, f, <<>>)
JList(s) == J("list", <<>>, <<>>, s)

\* Python's == on decoded JSON values: bool is a subclass of int, so
\* True == 1 and False == 0; otherwise values are equal when identical.
PyEq(a, b) ==
    \/ a = b
    \/ {a, b} = {JTrue, JInt(<<"1">>)}
    \/ {a, b} = {JFalse, JInt(<<"0">>)}

\* obj[key] with a str key: "" when it succeeds, else the exception raised
\* (KeyError on a dict without the key, TypeError on anything but a dict).
SubscriptError(obj, key) ==
    IF obj.t # "dict" THEN "TypeError"
    ELSE IF key \notin DOMAIN obj.d THEN "KeyError"
    ELSE ""

\* The elements of a finite set of keys in some fixed order.
RECURSIVE KeySeq(_)
KeySeq(S) ==
    IF S = {} THEN <<>>
    ELSE LET k == CHOOSE x \in S : TRUE IN <<JStr(<<k>>)>> \o KeySeq(S \ {k})

\* `for x in value`: TypeError unless value is a list, a dict or a str.
IterError(p) == IF p.t \in {"list", "dict", "str"} THEN "" ELSE "TypeError"

\* What `for x in value` yields: the elements of a list, the keys of a
\* dict, the characters of a str.
IterItems(p) ==
    IF p.t = "list" THEN p.items
    ELSE IF p.t = "dict" THEN KeySeq(DOMAIN p.d)
    ELSE [i \in DOMAIN p.v |-> JStr(<<p.v[i]>>)]

(***************************************************************************)
(* str methods and conversions                                             *)
(***************************************************************************)
UpperCase == <<"A", "B", "C", "D", "E", "F", "G", "H", "I", "J", "K", "L", "M",
               "N", "O", "P", "Q", "R", "S", "T", "U", "V", "W", "X", "Y", "Z">>
LowerCase == <<"a", "b", "c", "d", "e", "f", "g", "h", "i", "j", "k", "l", "m",
               "n", "o", "p", "q", "r", "s", "t", "u", "v", "w", "x", "y", "z">>

LowerChar(c) ==
    IF \E i \in DOMAIN UpperCase : UpperCase[i] = c
    THEN LowerCase[CHOOSE i \in DOMAIN UpperCase : UpperCase[i] = c]
    ELSE c

\* str.lower()
StrLower(s) == [i \in DOMAIN s |-> LowerChar(s[i])]

\* str.replace('\n', '. ')
ReplaceNewline(s) == [i \in DOMAIN s |-> IF s[i] = "\n" THEN ". " ELSE s[i]]

IsSpace(c) == c \in {" ", "\n", "\t"}

RECURSIVE LStrip(_)
LStrip(s) == IF s # <<>> /\ IsSpace(Head(s)) THEN LStrip(Tail(s)) ELSE s

RECURSIVE RStrip(_)
RStrip(s) ==
    IF s # <<>> /\ IsSpace(s[Len(s)]) THEN RStrip(SubSeq(s, 1, Len(s) - 1)) ELSE s

\* str.strip()
StrStrip(s) == RStrip(LStrip(s))

Digits == <<"0", "1", "2", "3", "4", "5", "6", "7", "8", "9">>

\* str(n) of a non-negative int, one piece per digit.
RECURSIVE IntToStr(_)
IntToStr(n) ==
    IF n < 10 THEN <<Digits[n + 1]>>
    ELSE IntToStr(n \div 10) \o <<Digits[(n % 10) + 1]>>

\* The first whitespace-separated word of a printed line.
FirstToken(line) == IF line = <<>> THEN "" ELSE line[1]

(***************************************************************************)
(* Literals of the source                                                  *)
(***************************************************************************)
S_all == <<"a", "l", "l">>
S_CRITICAL == <<"CRITICAL">>
S_WARNING == <<"WARNING">>
S_ONLINE == <<"ONLINE">>
S_FINISHED == <<"FINISHED">>
S_RUNNING == <<"RUNNING">>
S_UNAVAILABLE == <<"UNAVAILABLE">>

\* updateCheckResultDict
updateCheckResultDict ==
    [UNAVAILABLE |-> "no update available",
     AVAILABLE |-> "an update is available",
     REBOOT_REQUIRED |-> "an update has already been applied",
     HA_UNAVAILABLE |-> "HA is non-functional"]

\* str(sys.exc_info()) for an exception of type e
ExcInfo(e) == <<"(<class '", e, "'>, ...)">>

\* How a run ends: the line printed (<<>> when nothing reaches stdout), the
\* exit status, and whether it ended through an uncaught exception.
Exit(line, code) == [line |-> line, code |-> code, uncaught |-> FALSE]

\* An exception no handler catches: the interpreter writes the traceback
\* to stderr, nothing to stdout, and exits with status 1.
Uncaught == [line |-> <<>>, code |-> 1, uncaught |-> TRUE]

(***************************************************************************)
(* Startup.check_alerts                                                    *)
(***************************************************************************)
\* The test of line 212: `and` short-circuits, so alert['dismissed'] is
\* read only when --ignore-dismissed-alerts was given.
AlertSkipError(alert, ignore) ==
    IF ignore THEN SubscriptError(alert, "dismissed") ELSE ""

\* Faulty variant: dismissed alerts are skipped whether or not the flag is set.
AlertSkippedAlways(alert, ignore) ==
    /\ SubscriptError(alert, "dismissed") = ""
    /\ PyEq(alert.d["dismissed"], JTrue)

AlertSkipped(alert, ignore) ==
    /\ ignore
    /\ SubscriptError(alert, "dismissed") = ""
    /\ PyEq(alert.d["dismissed"], JTrue)

\* alert['formatted'].replace(...): KeyError without the key, AttributeError
\* when the value is not a str.
FormattedError(alert) ==
    IF SubscriptError(alert, "formatted") # "" THEN SubscriptError(alert, "formatted")
    ELSE IF alert.d["formatted"].t # "str" THEN "AttributeError"
    ELSE ""

AlertFragment(tag, alert) ==
    <<tag>> \o ReplaceNewline(alert.d["formatted"].v) \o <<" ">>

AlertsStart ==
    [raised |-> "", crit |-> 0, warn |-> 0,
     critial_messages |-> <<>>, warning_messages |-> <<>>]

\* One pass of the loop body, lines 211-219.
AlertsBody(alert, acc, ignore) ==
    IF AlertSkipError(alert, ignore) # ""
    THEN [acc EXCEPT !.raised = AlertSkipError(alert, ignore)]
    ELSE IF AlertSkipped(alert, ignore) THEN acc
    ELSE IF SubscriptError(alert, "level") # ""
    THEN [acc EXCEPT !.raised = SubscriptError(alert, "level")]
    ELSE IF PyEq(alert.d["level"], JStr(S_CRITICAL))
    THEN IF FormattedError(alert) # ""
         THEN [acc EXCEPT !.raised = FormattedError(alert), !.crit = @ + 1]
         ELSE [acc EXCEPT !.crit = @ + 1,
                          !.critial_messages = @ \o AlertFragment("- (C) ", alert)]
    ELSE IF PyEq(alert.d["level"], JStr(S_WARNING))
    THEN IF FormattedError(alert) # ""
         THEN [acc EXCEPT !.raised = FormattedError(alert), !.warn = @ + 1]
         ELSE [acc EXCEPT !.warn = @ + 1,
                          !.warning_messages = @ \o AlertFragment("- (W) ", alert)]
    ELSE acc

\* The for loop of lines 210-219; an exception leaves it at once.
RECURSIVE AlertsLoop(_, _, _, _)
AlertsLoop(alerts, i, acc, ignore) ==
    IF acc.raised # "" \/ i > Len(alerts) THEN acc
    ELSE AlertsLoop(alerts, i + 1, AlertsBody(alerts[i], acc, ignore), ignore)

\* Lines 205-233: the try block, then the verdict.
CheckAlertsResult(alerts, ignore) ==
    LET acc == IF IterError(alerts) # ""
               THEN [AlertsStart EXCEPT !.raised = IterError(alerts)]
               ELSE AlertsLoop(IterItems(alerts), 1, AlertsStart, ignore)
    IN  IF acc.raised # ""
        THEN Exit(<<"UNKNOWN", " - check_alerts() - Error when contacting TrueNAS server: ">>
                  \o ExcInfo(acc.raised), 3)
        ELSE IF acc.crit > 0
        THEN Exit(<<"CRITICAL", " ">> \o acc.critial_messages \o acc.warning_messages, 2)
        ELSE IF acc.warn > 0
        THEN Exit(<<"WARNING", " ">> \o acc.warning_messages, 1)
        ELSE Exit(<<"OK", " - No problem alerts">>, 0)

(***************************************************************************)
(* Startup.check_zpool                                                     *)
(***************************************************************************)
\* Faulty variant: the sentinel is compared without lowering the name.
LookingForAllPoolsCaseSensitive(zpool_name) == zpool_name = S_all

\* Line 248
LookingForAllPools(zpool_name) == StrLower(zpool_name) = S_all

\* Faulty variant: the requested name is not compared at all.
PoolRelevantAny(pool_name, zpool_name, looking_for_all_pools) == TRUE

\* The test of line 262; pool_name is the decoded JSON value.
PoolRelevant(pool_name, zpool_name, looking_for_all_pools) ==
    looking_for_all_pools \/ PyEq(JStr(zpool_name), pool_name)

\* str + value: TypeError unless the value is a str.
ConcatError(value) == IF value.t = "str" THEN "" ELSE "TypeError"

ZpoolStart ==
    [raised |-> "", crit |-> 0, warn |-> 0,
     critial_messages |-> <<>>, warning_messages |-> <<>>,
     zpools_examined |-> <<>>, actual_zpool_count |-> 0, all_pool_names |-> <<>>]

\* One pass of the loop body, lines 253-268.
ZpoolBody(pool, acc0, zpool_name) ==
    LET acc == [acc0 EXCEPT !.actual_zpool_count = @ + 1]
        looking_for_all_pools == LookingForAllPools(zpool_name)
    IN  IF SubscriptError(pool, "name") # ""
        THEN [acc EXCEPT !.raised = SubscriptError(pool, "name")]
        ELSE IF SubscriptError(pool, "status") # ""
        THEN [acc EXCEPT !.raised = SubscriptError(pool, "status")]
        ELSE LET pool_name == pool.d["name"]
                 pool_status == pool.d["status"]
             IN  IF ConcatError(pool_name) # ""
                 THEN [acc EXCEPT !.raised = ConcatError(pool_name)]
                 ELSE LET acc1 == [acc EXCEPT !.all_pool_names = @ \o pool_name.v \o <<" ">>]
                      IN  IF ~PoolRelevant(pool_name, zpool_name, looking_for_all_pools)
                          THEN acc1
                          ELSE LET acc2 == [acc1 EXCEPT !.zpools_examined =
                                                        @ \o <<" ">> \o pool_name.v]
                               IN  IF PyEq(pool_status, JStr(S_ONLINE)) THEN acc2
                                   ELSE IF ConcatError(pool_status) # ""
                                   THEN [acc2 EXCEPT !.raised = ConcatError(pool_status),
                                                     !.crit = @ + 1]
                                   ELSE [acc2 EXCEPT !.crit = @ + 1,
                                             !.critial_messages =
                                                 @ \o <<"- (C) ZPool ">> \o pool_name.v
                                                   \o <<"is ">> \o pool_status.v]

\* The for loop of lines 251-268.
RECURSIVE ZpoolLoop(_, _, _, _)
ZpoolLoop(pools, i, acc, zpool_name) ==
    IF acc.raised # "" \/ i > Len(pools) THEN acc
    ELSE ZpoolLoop(pools, i + 1, ZpoolBody(pools[i], acc, zpool_name), zpool_name)

\* Lines 273-275: no pools at all while looking for all of them.
ZpoolNoneFound(acc, zpool_name) ==
    IF /\ acc.zpools_examined = <<>>
       /\ acc.actual_zpool_count = 0
       /\ LookingForAllPools(zpool_name)
    THEN [acc EXCEPT !.zpools_examined = <<"(None - No Zpools found)">>]
    ELSE acc

\* The condition of line 278.
ZpoolNoMatch(acc, zpool_name) ==
    /\ acc.zpools_examined = <<>>
    /\ acc.actual_zpool_count > 0
    /\ ~LookingForAllPools(zpool_name)
    /\ acc.crit = 0

\* Lines 277-280: no pool of the requested name.
ZpoolNotMatched(acc, zpool_name) ==
    IF ZpoolNoMatch(acc, zpool_name)
    THEN [acc EXCEPT !.crit = @ + 1,
                     !.critial_messages =
                         <<"- No Zpools found matching ">> \o zpool_name \o <<" out of ">>
                         \o IntToStr(acc.actual_zpool_count) \o <<" pools (">>
                         \o acc.all_pool_names \o <<")">>]
    ELSE acc

\* Lines 240-291: the try block, the two special cases, then the verdict.
CheckZpoolResult(pool_results, zpool_name) ==
    LET loop == IF IterError(pool_results) # ""
                THEN [ZpoolStart EXCEPT !.raised = IterError(pool_results)]
                ELSE ZpoolLoop(IterItems(pool_results), 1, ZpoolStart, zpool_name)
        acc == ZpoolNotMatched(ZpoolNoneFound(loop, zpool_name), zpool_name)
    IN  IF loop.raised # ""
        THEN Exit(<<"UNKNOWN", " - check_zpool() - Error when contacting TrueNAS server: ">>
                  \o ExcInfo(loop.raised), 3)
        ELSE IF acc.crit > 0
        THEN Exit(<<"CRITICAL", " ">> \o acc.critial_messages \o acc.warning_messages, 2)
        ELSE IF acc.warn > 0
        THEN Exit(<<"WARNING", " ">> \o acc.warning_messages, 1)
        ELSE Exit(<<"OK", " - No problem Zpools. Zpools examined: ">>
                  \o acc.zpools_examined, 0)

(***************************************************************************)
(* Startup.check_repl                                                      *)
(***************************************************************************)
\* Faulty variant: only FINISHED counts as healthy.
ReplIsProblemUnlessFinished(repl_state_code) ==
    ~PyEq(repl_state_code, JStr(S_FINISHED))

\* Lines 145-147
ReplIsProblem(repl_state_code) ==
    /\ ~PyEq(repl_state_code, JStr(S_FINISHED))
    /\ ~PyEq(repl_state_code, JStr(S_RUNNING))

ReplStart ==
    [raised |-> "", errors |-> 0, msg |-> <<>>, replications_examined |-> <<>>]

\* One pass of the loop body, lines 135-149.
ReplBody(repl, acc) ==
    IF SubscriptError(repl, "name") # ""
    THEN [acc EXCEPT !.raised = SubscriptError(repl, "name")]
    ELSE IF SubscriptError(repl, "state") # ""
    THEN [acc EXCEPT !.raised = SubscriptError(repl, "state")]
    ELSE IF SubscriptError(repl.d["state"], "state") # ""
    THEN [acc EXCEPT !.raised = SubscriptError(repl.d["state"], "state")]
    ELSE LET repl_name == repl.d["name"]
             repl_state_code == repl.d["state"].d["state"]
         IN  IF ConcatError(repl_name) # ""
             THEN [acc EXCEPT !.raised = ConcatError(repl_name)]
             ELSE IF ConcatError(repl_state_code) # ""
             THEN [acc EXCEPT !.raised = ConcatError(repl_state_code)]
             ELSE LET acc1 == [acc EXCEPT !.replications_examined =
                                   @ \o <<" ">> \o repl_name.v \o <<": ">>
                                     \o repl_state_code.v]
                  IN  IF ReplIsProblem(repl_state_code)
                      THEN [acc1 EXCEPT !.errors = @ + 1,
                                        !.msg = @ \o repl_name.v \o <<": ">>
                                                  \o repl_state_code.v]
                      ELSE acc1

\* The for loop of lines 134-149.
RECURSIVE ReplLoop(_, _, _)
ReplLoop(repls, i, acc) ==
    IF acc.raised # "" \/ i > Len(repls) THEN acc
    ELSE ReplLoop(repls, i + 1, ReplBody(repls[i], acc))

\* Lines 129-159: the try block, then the verdict.
CheckReplResult(repls) ==
    LET acc == IF IterError(repls) # ""
               THEN [ReplStart EXCEPT !.raised = IterError(repls)]
               ELSE ReplLoop(IterItems(repls), 1, ReplStart)
    IN  IF acc.raised # ""
        THEN Exit(<<"UNKNOWN", " - check_repl() - Error when contacting TrueNAS server: ">>
                  \o ExcInfo(acc.raised), 3)
        ELSE IF acc.errors > 0
        THEN Exit(<<"WARNING", " - There are ">> \o IntToStr(acc.errors)
                  \o <<" replication errors [">> \o StrStrip(acc.msg)
                  \o <<"]. Go to Storage > Replication Tasks > View Replication Tasks in TrueNAS for more details.">>,
                  1)
        ELSE Exit(<<"OK", " - No replication errors. Replications examined: ">>
                  \o acc.replications_examined, 0)

(***************************************************************************)
(* Startup.check_update                                                    *)
(***************************************************************************)
\* Faulty variant: only AVAILABLE asks for attention.
NeedsUpdateOnlyAvailable(updateCheckResultString) ==
    PyEq(updateCheckResultString, JStr(<<"AVAILABLE">>))

\* Line 182
NeedsUpdate(updateCheckResultString) ==
    ~PyEq(updateCheckResultString, JStr(S_UNAVAILABLE))

\* `status in updateCheckResultDict` (line 189) for a str status
InUpdateDict(status) ==
    /\ status.t = "str"
    /\ Len(status.v) = 1
    /\ status.v[1] \in DOMAIN updateCheckResultDict

\* Lines 188-197, which no try block covers: the membership test hashes the
\* status (TypeError for a list or a dict), the concatenations need a str
\* (TypeError for anything else) and the lookup of line 196 needs a key of
\* the table (KeyError).
UpdateVerdict(status) ==
    IF NeedsUpdate(status)
    THEN IF status.t # "str" THEN Uncaught
         ELSE IF InUpdateDict(status)
         THEN Exit(<<"WARNING", " - Update Status: ">> \o status.v
                   \o <<" (", updateCheckResultDict[status.v[1]],
                        "). Update may be required. Go to TrueNAS Dashboard -> System -> Update to check for newer version.">>,
                   1)
         ELSE Exit(<<"WARNING", " - Unknown Update Status: ">> \o status.v
                   \o <<". Update may be required. Go to TrueNAS Dashboard -> System -> Update to check for newer version.">>,
                   1)
    ELSE IF ~InUpdateDict(status) THEN Uncaught
    ELSE Exit(<<"OK", " - Update Status: ">> \o status.v
              \o <<" (", updateCheckResultDict[status.v[1]], ")">>, 0)

\* Lines 164-197: the try block around updateCheckResult['status'], then
\* the verdict.
CheckUpdateResult(updateCheckResult) ==
    IF SubscriptError(updateCheckResult, "status") # ""
    THEN Exit(<<"UNKNOWN", " - check_update() - Error when contacting TrueNAS server: ">>
              \o ExcInfo(SubscriptError(updateCheckResult, "status")), 3)
    ELSE UpdateVerdict(updateCheckResult.d["status"])

(***************************************************************************)
(* Startup.do_request, get_request, post_request                           *)
(***************************************************************************)
\* Faulty variant: the update check is sent as a GET like the others.
RequestForAllGet(type) ==
    CASE type = "alerts" -> [resource |-> "alert/list", method |-> "GET"]
      [] type = "zpool" -> [resource |-> "pool", method |-> "GET"]
      [] type = "repl" -> [resource |-> "replication", method |-> "GET"]
      [] type = "update" -> [resource |-> "update/check_available", method |-> "GET"]

\* The resource and the method each check asks for (lines 128, 163, 201, 236).
RequestFor(type) ==
    CASE type = "alerts" -> [resource |-> "alert/list", method |-> "GET"]
      [] type = "zpool" -> [resource |-> "pool", method |-> "GET"]
      [] type = "repl" -> [resource |-> "replication", method |-> "GET"]
      [] type = "update" -> [resource |-> "update/check_available", method |-> "POST"]

\* Faulty variant: only server errors (5xx) raise.
RaisesForServerErrorOnly(status_code) == 500 <= status_code /\ status_code < 600

\* r.raise_for_status() (line 107) raises HTTPError for a 4xx or 5xx status
\* and for no other.
RaisesForStatus(status_code) == 400 <= status_code /\ status_code < 600

\* r.ok (line 112): raise_for_status() would not raise.
ResponseOk(status_code) == ~RaisesForStatus(status_code)

\* What the server and the network can do to one request: the connection
\* fails (requests raises), or a response arrives with a status code and a
\* body that json decodes or not.
NetworkFailure == [net |-> FALSE, status_code |-> 0, decodes |-> FALSE]
NoResponse == [net |-> FALSE, status_code |-> -1, decodes |-> FALSE]
HttpStatusCodes == {200, 300, 404, 500}
Responses ==
    {NetworkFailure}
    \cup [net : {TRUE}, status_code : HttpStatusCodes, decodes : BOOLEAN]

\* Lines 71-110: the first try block raised.
RequestFailed(resp) == ~resp.net \/ RaisesForStatus(resp.status_code)

\* Lines 113-117: r.json() raised.
JsonFailed(resp) == ResponseOk(resp.status_code) /\ ~resp.decodes

\* do_request ends the run itself (sys.exit(3)) on these.
DoRequestExit(resp) ==
    IF RequestFailed(resp)
    THEN Exit(<<"UNKNOWN", " - request failed - Error when contacting TrueNAS server: ">>
              \o ExcInfo(IF resp.net THEN "HTTPError" ELSE "ConnectionError"), 3)
    ELSE Exit(<<"UNKNOWN", " - json failed to parse - Error when contacting TrueNAS server: ">>
              \o ExcInfo("JSONDecodeError"), 3)

(***************************************************************************)
(* Inputs: the command line and the server's answers                       *)
(***************************************************************************)
\* All sequences over S of length at most n.
SeqsUpTo(S, n) == UNION {[1..k -> S] : k \in 0..n}

\* All JSON objects whose keys are some of the keys of vals (a record of
\* sets), each key present holding one of its values.
ObjectsOver(vals) ==
    {JDict(f) : f \in UNION {{g \in [K -> UNION {vals[k] : k \in K}] :
                                 \A k \in K : g[k] \in vals[k]} :
                             K \in SUBSET DOMAIN vals}}

\* --type
AlertTypes == {"alerts", "zpool", "repl", "update", "bogus"}

\* --zpoolname: the default, the sentinel in another case, two names that
\* differ in case only.
S_tank == <<"t", "a", "n", "k">>
S_Tank == <<"T", "a", "n", "k">>
S_rpool == <<"r", "p", "o", "o", "l">>
ZpoolNames == {S_all, <<"A", "l", "L">>, S_tank, S_Tank}

AlertValues ==
    [level |-> {JStr(S_CRITICAL), JStr(S_WARNING), JStr(<<"INFO">>)},
     dismissed |-> {JTrue, JFalse, JInt(<<"1">>)},
     formatted |-> {JStr(<<"disk", "\n", "full">>), JInt(<<"5">>)}]

PoolValues ==
    [name |-> {JStr(S_tank), JStr(S_rpool), JInt(<<"5">>)},
     status |-> {JStr(S_ONLINE), JStr(<<"DEGRADED">>), JInt(<<"5">>)}]

ReplValues ==
    [name |-> {JStr(<<"r1">>), JInt(<<"5">>)},
     state |-> ObjectsOver([state |-> {JStr(S_FINISHED), JStr(S_RUNNING),
                                        JStr(<<"ERROR">>), JInt(<<"5">>)}])
               \cup {JStr(S_FINISHED)}]

UpdateValues ==
    [status |-> {JStr(S_UNAVAILABLE), JStr(<<"AVAILABLE">>), JStr(<<"REBOOT_REQUIRED">>),
                 JStr(<<"HA_UNAVAILABLE">>), JStr(<<"TOTALLY_NEW_CODE">>),
                 JInt(<<"5">>), JNull, JList(<<>>)}]

\* Bodies that decode but are no array of objects.
OtherPayloads == {JNull, JDict(<<>>), JDict([message |-> JStr(<<"error">>)])}

ArraysOf(vals) ==
    {JList(q) : q \in SeqsUpTo(ObjectsOver(vals) \cup {JInt(<<"5">>)}, MaxItems)}

\* The decoded bodies the server may answer a check with.
Payloads(type) ==
    CASE type = "alerts" -> ArraysOf(AlertValues) \cup OtherPayloads
      [] type = "zpool" -> ArraysOf(PoolValues) \cup OtherPayloads
      [] type = "repl" -> ArraysOf(ReplValues) \cup OtherPayloads
      [] type = "update" -> ObjectsOver(UpdateValues) \cup {JNull, JList(<<>>)}

(***************************************************************************)
(* The run                                                                 *)
(***************************************************************************)
VARIABLES
    pc,                       \* where the run is
    alert_type,               \* args.type
    zpool_name,               \* self._zpool_name
    ignore_dismissed_alerts,  \* self._ignore_dismissed_alerts
    requests,                 \* the calls of requests.get / requests.post so far
    response,                 \* what came back for the request
    payload,                  \* the value do_request returned
    stdout,                   \* the lines printed
    exit_code,                \* the process exit status, -1 while running
    exit_site,                \* the function the run ended in, "" while running
    uncaught                  \* the run ended through an uncaught exception

vars == <<pc, alert_type, zpool_name, ignore_dismissed_alerts, requests, response,
          payload, stdout, exit_code, exit_site, uncaught>>

config == <<alert_type, zpool_name, ignore_dismissed_alerts>>

\* The state main() hands to handle_requested_alert_type.  --zpoolname
\* defaults to 'all' and --ignore-dismissed-alerts to False; each is varied
\* for the check that reads it.
Init ==
    /\ pc = "handle_requested_alert_type"
    /\ alert_type \in AlertTypes
    /\ zpool_name \in IF alert_type = "zpool" THEN ZpoolNames ELSE {S_all}
    /\ ignore_dismissed_alerts \in IF alert_type = "alerts" THEN BOOLEAN ELSE {FALSE}
    /\ requests = <<>>
    /\ response = NoResponse
    /\ payload = JNull
    /\ stdout = <<>>
    /\ exit_code = -1
    /\ exit_site = ""
    /\ uncaught = FALSE

\* print(line); sys.exit(code), or the death by an uncaught exception.
Terminate(site, result) ==
    /\ pc' = "exited"
    /\ exit_site' = site
    /\ stdout' = IF result.uncaught THEN stdout ELSE Append(stdout, result.line)
    /\ exit_code' = result.code
    /\ uncaught' = result.uncaught

\* Lines 293-304
HandleRequestedAlertType ==
    /\ pc = "handle_requested_alert_type"
    /\ IF alert_type \in {"alerts", "repl", "update", "zpool"}
       THEN /\ pc' = "do_request"
            /\ UNCHANGED <<stdout, exit_code, exit_site, uncaught>>
       ELSE Terminate("handle_requested_alert_type", Exit(<<"Unknown", " type: ", alert_type>>, 3))
    /\ UNCHANGED <<config, requests, response, payload>>

\* The first statement of each check: get_request / post_request, lines
\* 70-125.  One call of requests.get or requests.post; a failure ends the
\* run here, otherwise the decoded body is returned to the check.
DoRequest ==
    /\ pc = "do_request"
    /\ requests' = Append(requests, RequestFor(alert_type))
    /\ \E resp \in Responses :
          /\ response' = resp
          /\ IF RequestFailed(resp) \/ JsonFailed(resp)
             THEN /\ Terminate("do_request", DoRequestExit(resp))
                  /\ UNCHANGED payload
             ELSE /\ payload' \in Payloads(alert_type)
                  /\ pc' = "classify"
                  /\ UNCHANGED <<stdout, exit_code, exit_site, uncaught>>
    /\ UNCHANGED config

\* The rest of check_alerts, lines 203-233
CheckAlerts ==
    /\ pc = "classify"
    /\ alert_type = "alerts"
    /\ Terminate("check_alerts", CheckAlertsResult(payload, ignore_dismissed_alerts))
    /\ UNCHANGED <<config, requests, response, payload>>

\* The rest of check_zpool, lines 238-291
CheckZpool ==
    /\ pc = "classify"
    /\ alert_type = "zpool"
    /\ Terminate("check_zpool", CheckZpoolResult(payload, zpool_name))
    /\ UNCHANGED <<config, requests, response, payload>>

\* The rest of check_repl, lines 129-159
CheckRepl ==
    /\ pc = "classify"
    /\ alert_type = "repl"
    /\ Terminate("check_repl", CheckReplResult(payload))
    /\ UNCHANGED <<config, requests, response, payload>>

\* The rest of check_update, lines 164-197
CheckUpdate ==
    /\ pc = "classify"
    /\ alert_type = "update"
    /\ Terminate("check_update", CheckUpdateResult(payload))
    /\ UNCHANGED <<config, requests, response, payload>>

Next ==
    \/ HandleRequestedAlertType
    \/ DoRequest
    \/ CheckAlerts
    \/ CheckZpool
    \/ CheckRepl
    \/ CheckUpdate

Spec == Init /\ [][Next]_vars

(***************************************************************************)
(* Vocabulary of the properties                                            *)
(***************************************************************************)
Done == pc = "exited"

CheckSites == {"check_alerts", "check_zpool", "check_repl", "check_update"}

\* OK=0, WARNING=1, CRITICAL=2, UNKNOWN=3
SeverityWord(code) ==
    CASE code = 0 -> "OK"
      [] code = 1 -> "WARNING"
      [] code = 2 -> "CRITICAL"
      [] code = 3 -> "UNKNOWN"
      [] OTHER -> ""

\* Exactly one line was printed and it starts with the word.
Printed(word) == Len(stdout) = 1 /\ FirstToken(stdout[1]) = word

Pieces(line) == {line[i] : i \in DOMAIN line}

\* The text sub occurs in the line.
Contains(line, sub) ==
    \E i \in 1..(Len(line) - Len(sub) + 1) : SubSeq(line, i, i + Len(sub) - 1) = sub

HasKeys(x, K) == x.t = "dict" /\ K \subseteq DOMAIN x.d

IsListOf(p, WellFormed(_)) ==
    p.t = "list" /\ \A i \in DOMAIN p.items : WellFormed(p.items[i])

WellFormedAlert(a) ==
    /\ HasKeys(a, {"level", "dismissed", "formatted"})
    /\ a.d["level"].t = "str"
    /\ a.d["dismissed"].t = "bool"
    /\ a.d["formatted"].t = "str"

WellFormedPool(q) ==
    /\ HasKeys(q, {"name", "status"})
    /\ q.d["name"].t = "str"
    /\ q.d["status"].t = "str"

WellFormedRepl(r) ==
    /\ HasKeys(r, {"name", "state"})
    /\ r.d["name"].t = "str"
    /\ HasKeys(r.d["state"], {"state"})
    /\ r.d["state"].d["state"].t = "str"

WellFormedUpdate(u) == HasKeys(u, {"status"}) /\ u.d["status"].t = "str"

\* The payload has the shape section 6 gives for the check.
WellFormedPayload(type, p) ==
    CASE type = "alerts" -> IsListOf(p, WellFormedAlert)
      [] type = "zpool" -> IsListOf(p, WellFormedPool)
      [] type = "repl" -> IsListOf(p, WellFormedRepl)
      [] type = "update" -> WellFormedUpdate(p)
      [] OTHER -> FALSE

\* The filter is the sentinel 'all' in some letter case.
IsAllSentinel(name) ==
    /\ Len(name) = 3
    /\ name[1] \in {"a", "A"}
    /\ name[2] \in {"l", "L"}
    /\ name[3] \in {"l", "L"}

(***************************************************************************)
(* C1                                                                      *)
(***************************************************************************)
\* C1: whenever one of the four checks ends on a decoded payload that is
\* malformed (wrong top-level type, a missing field, a value of the wrong
\* type), it ends with an UNKNOWN line and exit code 3, never through an
\* uncaught exception and never as OK, WARNING or CRITICAL.
C1_MalformedPayloadIsUnknown ==
    exit_site \in CheckSites /\ ~WellFormedPayload(alert_type, payload)
        => exit_code = 3 /\ ~uncaught /\ Printed("UNKNOWN")

(***************************************************************************)
(* C2                                                                      *)
(***************************************************************************)
\* C2: every finished run has an exit code in {0,1,2,3} and one line on
\* stdout whose first token is the severity word of that code.
C2_ExitCodeMatchesSeverityWord ==
    Done => exit_code \in 0..3 /\ Printed(SeverityWord(exit_code))

(***************************************************************************)
(* C3                                                                      *)
(***************************************************************************)
NoPoolNamed(pools, name) == \A i \in DOMAIN pools : pools[i].d["name"].v # name

NoMatchLine(line, name, pools) ==
    /\ FirstToken(line) = "CRITICAL"
    /\ "- No Zpools found matching " \in Pieces(line)
    /\ Contains(line, name)
    /\ Contains(line, IntToStr(Len(pools)))
    /\ \A k \in DOMAIN pools : Contains(line, pools[k].d["name"].v)

\* C3: check_zpool with a specific-name filter, on a well-formed pool list of
\* any length in which no pool has exactly that name, ends CRITICAL (exit 2)
\* with a message naming the filter, the pool count and the pool names.
C3_NoMatchingPoolIsCritical ==
    /\ exit_site = "check_zpool"
    /\ ~IsAllSentinel(zpool_name)
    /\ IsListOf(payload, WellFormedPool)
    /\ NoPoolNamed(payload.items, zpool_name)
    => exit_code = 2 /\ Len(stdout) = 1
       /\ NoMatchLine(stdout[1], zpool_name, payload.items)

\* The same for lists of at least one pool, where the code agrees.
C3_NoMatchAmongSomePoolsIsCritical ==
    /\ exit_site = "check_zpool"
    /\ ~IsAllSentinel(zpool_name)
    /\ IsListOf(payload, WellFormedPool)
    /\ payload.items # <<>>
    /\ NoPoolNamed(payload.items, zpool_name)
    => exit_code = 2 /\ Len(stdout) = 1
       /\ NoMatchLine(stdout[1], zpool_name, payload.items)

(***************************************************************************)
(* C4                                                                      *)
(***************************************************************************)
\* A record counts unless dismissed alerts are ignored and it is dismissed.
Counted(a) == ~(ignore_dismissed_alerts /\ a.d["dismissed"] = JTrue)

HasCounted(alerts, level) ==
    \E i \in DOMAIN alerts : Counted(alerts[i]) /\ alerts[i].d["level"].v = level

\* C4: check_alerts on a well-formed alert list ends CRITICAL (2) iff some
\* counted record has level CRITICAL, else WARNING (1) iff some counted
\* record has level WARNING, else OK (0); nothing else moves the verdict.
C4_AlertVerdict ==
    exit_site = "check_alerts" /\ IsListOf(payload, WellFormedAlert)
        => /\ exit_code = IF HasCounted(payload.items, S_CRITICAL) THEN 2
                          ELSE IF HasCounted(payload.items, S_WARNING) THEN 1
                          ELSE 0
           /\ Printed(SeverityWord(exit_code))

\* A dismissed CRITICAL record is ignored and a counted WARNING decides.
C4_Witness ==
    /\ exit_site = "check_alerts"
    /\ IsListOf(payload, WellFormedAlert)
    /\ ignore_dismissed_alerts
    /\ \E i \in DOMAIN payload.items :
          /\ payload.items[i].d["level"].v = S_CRITICAL
          /\ payload.items[i].d["dismissed"] = JTrue
    /\ exit_code = 1

(***************************************************************************)
(* C5                                                                      *)
(***************************************************************************)
NotOnline(q) == q.d["status"].v # S_ONLINE

RECURSIVE PoolFragments(_)
PoolFragments(pools) ==
    IF pools = <<>> THEN <<>>
    ELSE <<"- (C) ZPool ">> \o Head(pools).d["name"].v \o <<"is ">>
         \o Head(pools).d["status"].v \o PoolFragments(Tail(pools))

\* C5: check_zpool with the filter 'all' in any letter case, on a
\* well-formed pool list: CRITICAL (2) iff some pool is not ONLINE, the line
\* holding one fragment for each such pool in order and none for an ONLINE
\* pool; otherwise OK (0), also for the empty list.
C5_AllPoolsVerdict ==
    /\ exit_site = "check_zpool"
    /\ IsAllSentinel(zpool_name)
    /\ IsListOf(payload, WellFormedPool)
    => IF SelectSeq(payload.items, NotOnline) # <<>>
       THEN /\ exit_code = 2
            /\ stdout = << <<"CRITICAL", " ">>
                           \o PoolFragments(SelectSeq(payload.items, NotOnline)) >>
       ELSE exit_code = 0 /\ Printed("OK")

\* The sentinel in mixed case, two pools that are not ONLINE, both reported.
C5_Witness ==
    /\ exit_site = "check_zpool"
    /\ IsAllSentinel(zpool_name) /\ zpool_name # S_all
    /\ IsListOf(payload, WellFormedPool)
    /\ Len(SelectSeq(payload.items, NotOnline)) = 2
    /\ exit_code = 2

(***************************************************************************)
(* C6                                                                      *)
(***************************************************************************)
\* do_request's own UNKNOWN exit: no check ran.
EndedInDoRequest == exit_site = "do_request" /\ exit_code = 3 /\ Printed("UNKNOWN")

\* C6: every transport failure (network failure, non-2xx status, body that
\* does not decode) ends the run with an UNKNOWN line and exit code 3, never
\* as OK, WARNING or CRITICAL.  Stated for the runs in which a payload that
\* reaches a check is well formed, so that no malformed payload plays a part.
C6_TransportFailureIsUnknown ==
    /\ Done /\ requests # <<>>
    /\ exit_site \in CheckSites => WellFormedPayload(alert_type, payload)
    /\ \/ ~response.net
       \/ ~(200 <= response.status_code /\ response.status_code <= 299)
       \/ ~response.decodes
    => exit_code = 3 /\ Printed("UNKNOWN")

\* C6 as amended: a network failure, an HTTP error status (4xx or 5xx) or a
\* body that does not decode ends the run in do_request, before any check
\* classifies, with an UNKNOWN line and exit code 3.
C6_ErrorStatusIsUnknown ==
    /\ Done /\ requests # <<>>
    /\ \/ ~response.net
       \/ (400 <= response.status_code /\ response.status_code <= 599)
       \/ ~response.decodes
    => EndedInDoRequest

\* A 404 whose body is valid JSON still ends in do_request.
C6_Witness ==
    /\ Done /\ response.net /\ response.status_code = 404 /\ response.decodes
    /\ EndedInDoRequest

(***************************************************************************)
(* C7                                                                      *)
(***************************************************************************)
ReplCode(r) == r.d["state"].d["state"].v

\* C7: check_repl never ends CRITICAL; on a well-formed replication list it
\* ends WARNING (1) iff some record's state code is neither FINISHED nor
\* RUNNING, and OK (0) otherwise.
C7_ReplVerdict ==
    exit_site = "check_repl"
        => /\ exit_code # 2
           /\ IsListOf(payload, WellFormedRepl)
                => /\ exit_code =
                          IF \E i \in DOMAIN payload.items :
                                ReplCode(payload.items[i]) \notin {S_FINISHED, S_RUNNING}
                          THEN 1 ELSE 0
                   /\ Printed(SeverityWord(exit_code))

\* Every record RUNNING, at least one of them: OK.
C7_Witness ==
    /\ exit_site = "check_repl"
    /\ IsListOf(payload, WellFormedRepl)
    /\ payload.items # <<>>
    /\ \A i \in DOMAIN payload.items : ReplCode(payload.items[i]) = S_RUNNING
    /\ exit_code = 0

(***************************************************************************)
(* C8                                                                      *)
(***************************************************************************)
\* The table of section 4.6.
StatusDescription(status) ==
    CASE status = <<"UNAVAILABLE">> -> "no update available"
      [] status = <<"AVAILABLE">> -> "an update is available"
      [] status = <<"REBOOT_REQUIRED">> -> "an update has already been applied"
      [] status = <<"HA_UNAVAILABLE">> -> "HA is non-functional"
      [] OTHER -> ""

\* C8: check_update on a status string: OK (0) iff it is exactly
\* UNAVAILABLE; any other status gives WARNING (1), the line carrying the
\* table's description of a known status and the literal status otherwise.
C8_UpdateVerdict ==
    exit_site = "check_update" /\ WellFormedUpdate(payload)
        => LET status == payload.d["status"].v
           IN  IF status = S_UNAVAILABLE
               THEN exit_code = 0 /\ Printed("OK")
               ELSE /\ exit_code = 1 /\ Printed("WARNING")
                    /\ IF StatusDescription(status) # ""
                       THEN StatusDescription(status) \in Pieces(stdout[1])
                       ELSE /\ " - Unknown Update Status: " \in Pieces(stdout[1])
                            /\ Contains(stdout[1], status)

\* A status outside the table ends WARNING.
C8_Witness ==
    /\ exit_site = "check_update" /\ WellFormedUpdate(payload)
    /\ StatusDescription(payload.d["status"].v) = ""
    /\ exit_code = 1

(***************************************************************************)
(* C9                                                                      *)
(***************************************************************************)
\* The request section 4.7 gives for each category.
ExpectedRequest(type) ==
    CASE type = "alerts" -> [resource |-> "alert/list", method |-> "GET"]
      [] type = "zpool" -> [resource |-> "pool", method |-> "GET"]
      [] type = "repl" -> [resource |-> "replication", method |-> "GET"]
      [] type = "update" -> [resource |-> "update/check_available", method |-> "POST"]

\* C9: a recognised category issues exactly one request, the one of its
\* category, before its check classifies anything and never again; an
\* unrecognised category ends with exit code 3 and no request at all.
C9_OneRequestBeforeClassification ==
    /\ Len(requests) <= 1
    /\ pc = "handle_requested_alert_type" => requests = <<>>
    /\ IF alert_type \in {"alerts", "zpool", "repl", "update"}
       THEN /\ pc = "classify" \/ exit_site \in CheckSites \cup {"do_request"}
                => requests = <<ExpectedRequest(alert_type)>>
            /\ Done => exit_site \in CheckSites \cup {"do_request"}
       ELSE /\ requests = <<>>
            /\ pc # "classify"
            /\ Done => exit_code = 3 /\ exit_site = "handle_requested_alert_type"

\* The update check ended after its one POST.
C9_Witness ==
    /\ exit_site = "check_update"
    /\ requests = <<[resource |-> "update/check_available", method |-> "POST"]>>

(***************************************************************************)
(* C10                                                                     *)
(***************************************************************************)
\* A list of pools that each have a name (a str) and a status.
NamedPool(q) == HasKeys(q, {"name", "status"}) /\ q.d["name"].t = "str"

\* The lists with the names of pools, in order, that differ from it at most
\* in the status of pools whose name is not the filter.
StatusVariants(pools, name) ==
    {q \in [DOMAIN pools -> ObjectsOver(PoolValues)] :
        \A i \in DOMAIN pools :
           /\ NamedPool(q[i])
           /\ q[i].d["name"] = pools[i].d["name"]
           /\ pools[i].d["name"].v = name => q[i] = pools[i]}

FragmentCount(line) == Cardinality({i \in DOMAIN line : line[i] = "- (C) ZPool "})

\* C10: with a specific-name filter, the status of a pool whose name is not
\* exactly the filter does not matter: every list that differs from the
\* one answered only in such statuses gets the same first word and exit
\* code, and the line has a CRITICAL fragment only for pools of that name.
C10_OtherPoolsIrrelevant ==
    /\ exit_site = "check_zpool"
    /\ ~IsAllSentinel(zpool_name)
    /\ IsListOf(payload, NamedPool)
    => /\ \A q \in StatusVariants(payload.items, zpool_name) :
             LET other == CheckZpoolResult(JList(q), zpool_name)
             IN  other.code = exit_code /\ Printed(FirstToken(other.line))
       /\ FragmentCount(stdout[1]) <=
             Cardinality({i \in DOMAIN payload.items :
                             payload.items[i].d["name"].v = zpool_name})

\* The requested pool is ONLINE, another pool is not, and the run ends OK.
C10_Witness ==
    /\ exit_site = "check_zpool"
    /\ ~IsAllSentinel(zpool_name)
    /\ IsListOf(payload, WellFormedPool)
    /\ \E i, j \in DOMAIN payload.items :
          /\ payload.items[i].d["name"].v = zpool_name
          /\ payload.items[j].d["name"].v # zpool_name
          /\ NotOnline(payload.items[j])
    /\ exit_code = 0

====
